---- MODULE Spec2Model ----
(***************************************************************************)
(* GitHubTracker (src/main.py): the paginated fetch of followers and       *)
(* following, the follower snapshot file, the diff of two snapshots, and   *)
(* the capped history file, as one state machine; with it the constructor  *)
(* and the views of main(), the script that is run again from its top on   *)
(* every interaction.                                                      *)
(*                                                                         *)
(* Strings of the program that only need to be told apart (logins, URLs)   *)
(* are numbers here; the clock counts seconds.                             *)
(***************************************************************************)
EXTENDS Integers, Sequences, FiniteSets, TLC

\* ------------------------------------------------------------ constants
\* per_page=100 in the request URL
PerPage == 100
\* max_history = 1000 in updateHistory
max_history == 1000
\* "if remaining < 10" in check_rate_limit
LowRemaining == 10
\* the last 5 entries shown by getStats
RecentCount == 5
\* time.sleep(1) between two pages
PagePause == 1
\* "len(token) < 40" in main()
TokenLength == 40

\* --------------------------------------------------------------- bounds
\* operations (checkChanges, getNonMutualFollowing, getStats) per behaviour
MaxOps == 2
\* the same, where the lists are pages long or the log is at its cap
MaxLongOps == 1
\* what the outside does per behaviour: follows, unfollows, responses that
\* announce a reset ahead, files lost, truncated or corrupted
MaxEnvSteps == 1
\* the largest remote list has MaxPages full pages and one user more
MaxPages == 1
\* how far below the cap a history sequence that already exists starts
HistSlack == 1

VARIABLES
    followersFile,     \* <username>_followers.json
    historyFile,       \* <username>_history.json
    remoteFollowers,   \* the account's followers on the remote side
    remoteFollowing,   \* the accounts it follows on the remote side
    now,               \* the clock, in seconds
    pc,                \* where the running operation stands ("idle": none runs)
    op,                \* the running operation
    page,              \* the fetch loop's page
    acc,               \* the fetch loop's list (followers / following)
    followers,         \* what getFollowers returned to the operation
    following,         \* what getFollowing returned to the operation
    changes,           \* what checkChanges returned last
    non_mutual,        \* what getNonMutualFollowing returned last
    stats,             \* what getStats returned last
    raised,            \* the exception the last operation raised ("none")
    lastOp,            \* the operation that has just returned ("none")
    trace,             \* per kind of fetch: its requests, start list, result
    succeeded,         \* per kind of fetch: it returned after success responses only
    previous,          \* what checkChanges loaded as the previous snapshot
    preFollowersFile,  \* followersFile when the operation started
    preHistoryFile,    \* historyFile when the operation started
    base,              \* how many entries earlier runs appended to each sequence
    gained,            \* the entries appended to newFollowers since, oldest first
    lost,              \* the entries appended to unfollowers since, oldest first
    lastCheck,         \* the last checkChanges: did its fetch succeed, what it fetched
    repeated,          \* the checkChanges that returned fetched what the one before did
    opsLeft,           \* operations that may still be called
    envLeft,           \* what the outside may still do
    tracker,           \* the tracker object in use, by its username (None: none)
    otherFiles,        \* the data files on disk that are not the account's two
    attempt,           \* the last constructor call: its argument, and what was before
    ui,                \* where main() stands ("off": the tracker is used without it)
    view,              \* st.session_state.view
    clicked,           \* the button whose click started the script run ("none")
    visit              \* the view last entered from the menu, and the checkChanges
                       \* calls made since it was entered

vars == <<followersFile, historyFile, remoteFollowers, remoteFollowing, now, pc, op,
          page, acc, followers, following, changes, non_mutual, stats, raised, lastOp,
          trace, succeeded, previous, preFollowersFile, preHistoryFile, base, gained, lost,
          lastCheck, repeated, opsLeft, envLeft, tracker, otherFiles, attempt, ui, view,
          clicked, visit>>

\* What the constructor sets, and what main() keeps between two script runs.
construction == <<tracker, otherFiles, attempt>>
session == <<view, clicked, visit>>

\* ------------------------------------------------------------- helpers
Min(a, b) == IF a < b THEN a ELSE b

Last(s, n) == SubSeq(s, Len(s) - Min(n, Len(s)) + 1, Len(s))

\* A user as the API returns it: html_url is made of the login, avatar_url of the id.
ApiUser(l, i) == [login |-> l, id |-> i, avatar_url |-> i, html_url |-> l]

\* The remote list of the accounts lo..hi in order.
ApiUsers(lo, hi) == [k \in 1..(hi - lo + 1) |-> ApiUser(lo + k - 1, lo + k - 1)]

\* The dictionary the fetch keeps of one API user.
ToRecord(user) ==
    [login |-> user.login, id |-> user.id,
     avatarUrl |-> user.avatar_url, htmlUrl |-> user.html_url]

ToRecords(users) == [k \in 1..Len(users) |-> ToRecord(users[k])]

\* set(user['login'] for user in list)
Usernames(list) == {list[k].login : k \in 1..Len(list)}

\* The body of page p of a remote list, per_page entries a page.
PageOf(list, p) == SubSeq(list, (p - 1) * PerPage + 1, Min(p * PerPage, Len(list)))

\* --------------------------------------------------------------- files
\* A file is missing, empty (0 bytes), invalid (no JSON document: cut short or
\* garbled) or valid, and then holds the value json.dump wrote.
BadStates == {"missing", "empty", "invalid"}

Valid(value) == [state |-> "valid", data |-> value]

\* {"newFollowers": [], "unfollowers": []}
DefaultHistory == [newFollowers |-> <<>>, unfollowers |-> <<>>]

\* What an expression evaluates to: a value, or an exception on its way up.
Return(value) == [exc |-> "none", val |-> value]
Raise(exception, filler) == [exc |-> exception, val |-> filler]

\* json.load(f)
json_load(file, filler) ==
    IF file.state = "valid" THEN Return(file.data)
    ELSE Raise("JSONDecodeError", filler)

\* except (json.JSONDecodeError, FileNotFoundError): the clause of the three loaders
CaughtOnlyDecodeError == {"JSONDecodeError"}
Caught == {"JSONDecodeError", "FileNotFoundError"}

Except(result, default) ==
    IF result.exc \in Caught THEN Return(default) ELSE result

\* json.dump(followers, f, indent=2): the file is replaced as a whole
saveMerged(file, list) ==
    Valid(list \o SelectSeq(IF file.state = "valid" THEN file.data ELSE <<>>,
                            LAMBDA u : u.login \notin Usernames(list)))
saveCurrentFollowers(file, list) == Valid(list)

\* os.path.getsize raises on a missing file; an empty file is not parsed
loadPreviousFollowers(file) ==
    Except(IF file.state = "missing" THEN Raise("FileNotFoundError", <<>>)
           ELSE IF file.state = "empty" THEN Return(<<>>)
           ELSE json_load(file, <<>>),
           <<>>)

\* --------------------------------------------------------- constructor
\* What a caller passes as username: a text, or a value that is no text, written
\* as Python prints it.
Text(t) == [str |-> TRUE, value |-> t]
NoText(v) == [str |-> FALSE, value |-> v]

None == NoText("None")
\* The account whose two files and remote lists the model follows.
Account == Text("octocat")
Blank == Text(" ")

Identifiers == {Text(""), Blank, Account, None, NoText("0"), NoText("7")}

\* "not username": the empty text, None and 0 are false
Falsy(username) == username \in {Text(""), None, NoText("0")}

\* "if not username or not isinstance(username, str): raise ValueError"
RefusedUnlessText(username) == ~username.str
Refused(username) == Falsy(username) \/ ~username.str

\* f"{username}_followers.json" and f"{username}_history.json"
FileNames(username) ==
    {<<username.value, "followers">>, <<username.value, "history">>}

\* initializeDataFiles, for one file: "if not os.path.exists(file): json.dump(default)"
initializeAlways(file, default) == Valid(default)
initializeDataFiles(file, default) ==
    IF file.state = "missing" THEN Valid(default) ELSE file

\* username.strip(), of the texts that are typed here
strip(username) == IF username = Blank THEN Text("") ELSE username

\* ---------------------------------------------------------------- diff
\* [user for user in currentFollowers if user['login'] not in previousUsernames]
newFollowersById(currentFollowers, previousFollowers) ==
    SelectSeq(currentFollowers,
              LAMBDA user : \A k \in 1..Len(previousFollowers) :
                                previousFollowers[k].id # user.id)
newFollowersOf(currentFollowers, previousFollowers) ==
    LET previousUsernames == Usernames(previousFollowers)
    IN  SelectSeq(currentFollowers, LAMBDA user : user.login \notin previousUsernames)

\* [user for user in previousFollowers if user['login'] not in currentUsernames]
unfollowersWithoutNot(currentFollowers, previousFollowers) ==
    LET currentUsernames == Usernames(currentFollowers)
    IN  SelectSeq(previousFollowers, LAMBDA user : user.login \in currentUsernames)
unfollowersOf(currentFollowers, previousFollowers) ==
    LET currentUsernames == Usernames(currentFollowers)
    IN  SelectSeq(previousFollowers, LAMBDA user : user.login \notin currentUsernames)

\* [user for user in following if user['login'] not in follower_usernames]
nonMutualReversed(followerList, followingList) ==
    SelectSeq(followerList, LAMBDA user : user.login \notin Usernames(followingList))
nonMutualOf(followerList, followingList) ==
    LET follower_usernames == Usernames(followerList)
    IN  SelectSeq(followingList, LAMBDA user : user.login \notin follower_usernames)

\* ------------------------------------------------------------- history
\* datetime.now().strftime("%Y-%m-%d %H:%M:%S"): the second, as a sortable text
strftime(t) == t

\* [{"user": f, "timestamp": timestamp} for f in list]
Entries(list, timestamp) ==
    [k \in 1..Len(list) |-> [user |-> list[k], timestamp |-> timestamp]]

\* sequence[-max_history:]
KeepOldest(sequence) == SubSeq(sequence, 1, Min(max_history, Len(sequence)))
Truncate(sequence) == Last(sequence, max_history)

\* with open(historyFile): json.load(f) if getsize > 0 else the default; open
\* raises on a missing file
readHistory(file) ==
    IF file.state = "missing" THEN Raise("FileNotFoundError", DefaultHistory)
    ELSE IF file.state = "empty" THEN Return(DefaultHistory)
    ELSE json_load(file, DefaultHistory)

\* updateHistory: the file it writes, or the exception it raises
updateHistory(file, newFollowers, unfollowers, t) ==
    LET history == Except(readHistory(file), DefaultHistory)
        timestamp == strftime(t)
    IN  IF history.exc # "none" THEN Raise(history.exc, file)
        ELSE Return(Valid(
               [newFollowers |-> Truncate(history.val.newFollowers
                                          \o Entries(newFollowers, timestamp)),
                unfollowers |-> Truncate(history.val.unfollowers
                                         \o Entries(unfollowers, timestamp))]))

\* getStats: the dictionary it returns, or the exception it raises
StatsOf(history, currentFollowers) ==
    [totalFollowers |-> Len(currentFollowers),
     totalNewFollowers |-> Len(history.newFollowers),
     totalUnfollowers |-> Len(history.unfollowers),
     recentNewFollowers |-> Last(history.newFollowers, RecentCount),
     recentUnfollowers |-> Last(history.unfollowers, RecentCount)]

ZeroStats ==
    [totalFollowers |-> 0, totalNewFollowers |-> 0, totalUnfollowers |-> 0,
     recentNewFollowers |-> <<>>, recentUnfollowers |-> <<>>]

getStatsOf(hFile, fFile) ==
    LET history == readHistory(hFile)
        currentFollowers == loadPreviousFollowers(fFile)
    IN  IF history.exc \in Caught THEN Return(ZeroStats)
        ELSE IF history.exc # "none" THEN Raise(history.exc, ZeroStats)
        ELSE IF currentFollowers.exc \in Caught THEN Return(ZeroStats)
        ELSE IF currentFollowers.exc # "none" THEN Raise(currentFollowers.exc, ZeroStats)
        ELSE Return(StatsOf(history.val, currentFollowers.val))

\* --------------------------------------------------------------- fetch
\* The statuses a response carries: success, invalid token, rate limit, other.
Statuses == {200, 401, 403, 500}

\* check_rate_limit: the seconds it sleeps (0: it does not sleep)
sleepAtLowMark(remaining, reset_time, t) ==
    IF remaining <= LowRemaining /\ reset_time - t + 1 > 0
    THEN reset_time - t + 1
    ELSE 0
check_rate_limit(remaining, reset_time, t) ==
    IF remaining < LowRemaining
    THEN LET sleep_time == reset_time - t + 1
         IN  IF sleep_time > 0 THEN sleep_time ELSE 0
    ELSE 0

\* X-RateLimit-Remaining and X-RateLimit-Reset of a response at time t, 0 for a
\* header that is absent: no header or, while the outside may still act, the
\* reset one second ahead with plenty of calls left or with few.
Headers(t) ==
    {<<0, 0>>}
        \cup (IF envLeft > 0
              THEN {<<LowRemaining, t + 1>>, <<LowRemaining - 1, t + 1>>}
              ELSE {})

\* The response carries the headers.
Announces(hdr, t) == hdr[2] > t

\* "if not pageFollowers: break"
BreakOnShortPage(pageFollowers) == Len(pageFollowers) < PerPage
ShouldBreak(pageFollowers) == pageFollowers = <<>>

\* "return []" on a status that is not 200
ReturnAccumulated(accumulated) == accumulated
OnError(accumulated) == <<>>

\* time.sleep(1) at the end of a pass that goes on to the next page: the seconds
\* it pauses, after check_rate_limit slept for slept seconds
PauseUnlessSlept(slept) == IF slept > 0 THEN 0 ELSE PagePause
PauseAfter(slept) == PagePause

\* One pass of the "while True" loop of getFollowers / getFollowing over the
\* remote list: the request, check_rate_limit, and then return [], break, or
\* extend the list, go to the next page and sleep.
LoopPass(list, status, hdr) ==
    LET slept == check_rate_limit(hdr[1], hdr[2], now)
        pageFollowers == PageOf(list, page)
        entry == [page |-> page, status |-> status, at |-> now, slept |-> slept,
                  remaining |-> hdr[1], reset |-> hdr[2]]
    IN  IF status # 200
        THEN [returns |-> TRUE, value |-> OnError(acc), acc |-> acc, page |-> page,
              now |-> now + slept, entry |-> entry, paused |-> 0]
        ELSE IF ShouldBreak(pageFollowers)
        THEN [returns |-> TRUE, value |-> acc, acc |-> acc, page |-> page,
              now |-> now + slept, entry |-> entry, paused |-> 0]
        ELSE [returns |-> FALSE, value |-> <<>>, acc |-> acc \o ToRecords(pageFollowers),
              page |-> page + 1, now |-> now + slept + PauseAfter(slept),
              entry |-> entry, paused |-> PauseAfter(slept)]

\* What is recorded of one fetch: its requests in order, the remote list when it
\* started, whether that list stayed the same, and whether the fetch returned.
NoFetch == [log |-> <<>>, start |-> <<>>, stable |-> TRUE, done |-> FALSE]
FetchOf(list) == [NoFetch EXCEPT !.start = list]

Recorded(fetch, r) ==
    [fetch EXCEPT !.log = Append(@, [page |-> r.entry.page, status |-> r.entry.status,
                                      at |-> r.entry.at, slept |-> r.entry.slept,
                                      remaining |-> r.entry.remaining,
                                      reset |-> r.entry.reset,
                                      paused |-> r.paused]),
                  !.done = r.returns]

Succeeded(fetch) ==
    fetch.done /\ \A k \in 1..Len(fetch.log) : fetch.log[k].status = 200

NoChanges == [newFollowers |-> <<>>, unfollowers |-> <<>>, totalFollowers |-> 0]

\* ---------------------------------------------------------------- Init
U1 == ApiUser(1, 1)
U2 == ApiUser(2, 2)
U3 == ApiUser(3, 3)
\* The account with id 1 after it renamed itself.
Renamed == ApiUser(0, 1)
\* An account that is in no remote list at the start.
Newcomer == ApiUser(MaxPages * PerPage + 2, MaxPages * PerPage + 2)

\* Lengths around the page boundaries: a page that is not full, full pages,
\* full pages and one user more.
PageLengths == {PerPage - 1} \cup {k * PerPage + d : k \in 1..MaxPages, d \in {0, 1}}

\* A history sequence of n entries written by earlier runs.
Prefilled(n) ==
    [k \in 1..n |-> [user |-> ToRecord(IF k % 2 = 0 THEN U1 ELSE U2),
                     timestamp |-> strftime(k - n - 1)]]

PrefilledLengths == {0, max_history - HistSlack, max_history}

\* A few followers, a snapshot an earlier run may have saved, and an empty log.
InitSmall ==
    /\ remoteFollowers \in {<<>>, <<U1, U2>>, <<Renamed, U2>>}
    /\ remoteFollowing = <<U3, U1, U2>>
    /\ followersFile \in {Valid(<<>>), Valid(ToRecords(<<U1, U2>>))}
    /\ historyFile = Valid(DefaultHistory)
    /\ base = [newFollowers |-> 0, unfollowers |-> 0]

\* Lists of several pages and an empty log.
InitPages ==
    /\ \E n \in PageLengths : remoteFollowers = ApiUsers(1, n)
    /\ remoteFollowing = ApiUsers(2, PerPage + 1)
    /\ followersFile = Valid(<<>>)
    /\ historyFile = Valid(DefaultHistory)
    /\ base = [newFollowers |-> 0, unfollowers |-> 0]

\* A few followers and a log of which earlier runs filled one sequence up to
\* the cap or close to it.
InitHistory ==
    /\ remoteFollowers \in {<<>>, <<Renamed, U3>>}
    /\ remoteFollowing = <<U3, U1, U2>>
    /\ followersFile = Valid(ToRecords(<<U1, U2>>))
    /\ \E n \in (max_history - HistSlack)..max_history :
         base \in {[newFollowers |-> n, unfollowers |-> 0],
                   [newFollowers |-> 0, unfollowers |-> n]}
    /\ historyFile = Valid([newFollowers |-> Prefilled(base.newFollowers),
                            unfollowers |-> Prefilled(base.unfollowers)])

NoFetches == [followers |-> NoFetch, following |-> NoFetch]
NoneSucceeded == [followers |-> FALSE, following |-> FALSE]
NoCheck == [ok |-> FALSE, list |-> <<>>]

\* No operation runs and none has run.
AtRest ==
    /\ now = PagePause
    /\ pc = "idle"
    /\ op = "none"
    /\ page = 1
    /\ acc = <<>>
    /\ followers = <<>>
    /\ following = <<>>
    /\ changes = NoChanges
    /\ non_mutual = <<>>
    /\ stats = ZeroStats
    /\ raised = "none"
    /\ lastOp = "none"
    /\ trace = NoFetches
    /\ succeeded = NoneSucceeded
    /\ previous = <<>>
    /\ preFollowersFile = followersFile
    /\ preHistoryFile = historyFile
    /\ gained = <<>>
    /\ lost = <<>>
    /\ lastCheck = NoCheck
    /\ repeated = FALSE
    /\ envLeft = MaxEnvSteps
    /\ otherFiles = {}
    /\ clicked = "none"
    /\ visit = [view |-> "none", calls |-> 0]

NoAttempt == [username |-> None, tracker |-> None, otherFiles |-> {}]

\* The tracker is constructed: both files exist. main() does not run.
Constructed ==
    /\ AtRest
    /\ tracker = Account
    /\ attempt = [NoAttempt EXCEPT !.username = Account]
    /\ ui = "off"
    /\ view = "input"

\* The disk as earlier runs may have left it: no file yet, or a snapshot and a
\* log, of which one may be gone or cut to nothing.
InitDisk ==
    /\ remoteFollowers = <<Renamed, U2>>
    /\ remoteFollowing = <<U3, U1, U2>>
    /\ followersFile \in {[state |-> "missing", data |-> <<>>],
                          [state |-> "empty", data |-> <<>>],
                          Valid(ToRecords(<<U1, U2>>))}
    /\ base \in {[newFollowers |-> 0, unfollowers |-> 0],
                 [newFollowers |-> Len(<<U1, U2>>), unfollowers |-> 0]}
    /\ historyFile \in {[state |-> "missing", data |-> DefaultHistory],
                        Valid([newFollowers |-> Prefilled(base.newFollowers),
                               unfollowers |-> Prefilled(base.unfollowers)])}

\* No tracker is constructed yet. main() does not run.
NotConstructed ==
    /\ AtRest
    /\ tracker = None
    /\ attempt = NoAttempt
    /\ ui = "off"
    /\ view = "input"

\* main() runs for the first time in its session, after "if 'tracker' not in
\* st.session_state" has set tracker to None and view to 'input'.
SessionStarted ==
    /\ AtRest
    /\ tracker = None
    /\ attempt = NoAttempt
    /\ ui = "run"
    /\ view = "input"

Init == InitSmall /\ Constructed /\ opsLeft = MaxOps
InitOfPages == InitPages /\ Constructed /\ opsLeft = MaxLongOps
InitOfHistory == InitHistory /\ Constructed /\ opsLeft = MaxLongOps
InitOfConstruction == InitDisk /\ NotConstructed /\ opsLeft = MaxOps
InitOfSession == InitDisk /\ SessionStarted /\ opsLeft = MaxOps

\* ------------------------------------------------------------- actions
\* The view of main() that calls the operation.
ViewOf(operation) ==
    CASE operation = "checkChanges" -> "changes"
      [] operation = "getStats" -> "stats"
      [] operation = "getNonMutualFollowing" -> "nonMutual"

\* An operation can be called on the tracker of the account: by a caller that
\* holds it, or by main() when its script runs in the operation's view.
Callable(operation) ==
    /\ tracker = Account
    /\ ui = "off" \/ (ui = "run" /\ view = ViewOf(operation))

\* main() is then in the call; a visit counts its calls of checkChanges.
Called(operation) ==
    /\ ui' = IF ui = "off" THEN "off" ELSE "called"
    /\ visit' = IF ui = "run" /\ operation = "checkChanges"
                THEN [visit EXCEPT !.calls = @ + 1]
                ELSE visit
    /\ UNCHANGED <<construction, view, clicked>>

\* An operation is called: its locals and the last results are reset.
Call(operation, first) ==
    /\ pc = "idle"
    /\ opsLeft > 0
    /\ Callable(operation)
    /\ Called(operation)
    /\ opsLeft' = opsLeft - 1
    /\ op' = operation
    /\ pc' = first
    /\ page' = 1
    /\ acc' = <<>>
    /\ followers' = <<>>
    /\ following' = <<>>
    /\ changes' = NoChanges
    /\ non_mutual' = <<>>
    /\ stats' = ZeroStats
    /\ raised' = "none"
    /\ lastOp' = "none"
    /\ succeeded' = NoneSucceeded
    /\ previous' = <<>>
    /\ repeated' = FALSE
    /\ preFollowersFile' = followersFile
    /\ preHistoryFile' = historyFile

\* GitHubTracker(username): __init__, which refuses the username or sets the
\* fields and calls initializeDataFiles. The files are those named after the
\* username; a log that is created starts from the default.
Construct(username) ==
    /\ attempt' = [username |-> username, tracker |-> tracker,
                   otherFiles |-> otherFiles]
    /\ preFollowersFile' = followersFile
    /\ preHistoryFile' = historyFile
    /\ lastOp' = "GitHubTracker"
    /\ IF Refused(username)
       THEN /\ raised' = "ValueError"
            /\ UNCHANGED <<tracker, followersFile, historyFile, otherFiles,
                           base, gained, lost>>
       ELSE /\ raised' = "none"
            /\ tracker' = username
            /\ IF username = Account
               THEN /\ followersFile' = initializeDataFiles(followersFile, <<>>)
                    /\ historyFile' = initializeDataFiles(historyFile, DefaultHistory)
                    /\ base' = IF historyFile' # historyFile
                               THEN [newFollowers |-> 0, unfollowers |-> 0]
                               ELSE base
                    /\ gained' = IF historyFile' # historyFile THEN <<>> ELSE gained
                    /\ lost' = IF historyFile' # historyFile THEN <<>> ELSE lost
                    /\ UNCHANGED otherFiles
               ELSE /\ otherFiles' = otherFiles \cup FileNames(username)
                    /\ UNCHANGED <<followersFile, historyFile, base, gained, lost>>

\* A caller constructs a tracker.
GitHubTracker ==
    /\ pc = "idle"
    /\ ui = "off"
    /\ \E username \in Identifiers : Construct(username)
    /\ UNCHANGED <<remoteFollowers, remoteFollowing, now, pc, op, page, acc, followers,
                   following, changes, non_mutual, stats, trace, succeeded, previous,
                   lastCheck, repeated, opsLeft, envLeft, session, ui>>

\* checkChanges is called and calls getFollowers.
checkChangesCall ==
    /\ Call("checkChanges", "getFollowers")
    /\ trace' = [NoFetches EXCEPT !.followers = FetchOf(remoteFollowers)]
    /\ UNCHANGED <<followersFile, historyFile, remoteFollowers, remoteFollowing, now,
                   base, gained, lost, lastCheck, envLeft>>

\* getNonMutualFollowing is called and calls getFollowers.
getNonMutualFollowingCall ==
    /\ Call("getNonMutualFollowing", "getFollowers")
    /\ trace' = [NoFetches EXCEPT !.followers = FetchOf(remoteFollowers)]
    /\ UNCHANGED <<followersFile, historyFile, remoteFollowers, remoteFollowing, now,
                   base, gained, lost, lastCheck, envLeft>>

\* One pass of getFollowers' loop; when it returns, checkChanges goes on to its
\* diff and getNonMutualFollowing calls getFollowing.
getFollowers ==
    /\ pc = "getFollowers"
    /\ \E status \in Statuses, hdr \in Headers(now) :
         LET r == LoopPass(remoteFollowers, status, hdr)
             fetch == Recorded(trace.followers, r)
         IN  /\ now' = r.now
             /\ envLeft' = IF Announces(hdr, now) THEN envLeft - 1 ELSE envLeft
             /\ IF r.returns
                THEN /\ followers' = r.value
                     /\ succeeded' = [succeeded EXCEPT !.followers = Succeeded(fetch)]
                     /\ page' = 1
                     /\ acc' = <<>>
                     /\ IF op = "checkChanges"
                        THEN /\ pc' = "checkChanges"
                             /\ trace' = [trace EXCEPT !.followers = fetch]
                        ELSE /\ pc' = "getFollowing"
                             /\ trace' = [trace EXCEPT !.followers = fetch,
                                                       !.following = FetchOf(remoteFollowing)]
                ELSE /\ acc' = r.acc
                     /\ page' = r.page
                     /\ trace' = [trace EXCEPT !.followers = fetch]
                     /\ UNCHANGED <<pc, followers, succeeded>>
    /\ UNCHANGED <<followersFile, historyFile, remoteFollowers, remoteFollowing, op,
                   following, changes, non_mutual, stats, raised, lastOp, previous,
                   preFollowersFile, preHistoryFile, base, gained, lost, lastCheck,
                   repeated, opsLeft,
                   construction, session, ui>>

\* One pass of getFollowing's loop.
getFollowing ==
    /\ pc = "getFollowing"
    /\ \E status \in Statuses, hdr \in Headers(now) :
         LET r == LoopPass(remoteFollowing, status, hdr)
             fetch == Recorded(trace.following, r)
         IN  /\ now' = r.now
             /\ envLeft' = IF Announces(hdr, now) THEN envLeft - 1 ELSE envLeft
             /\ trace' = [trace EXCEPT !.following = fetch]
             /\ IF r.returns
                THEN /\ following' = r.value
                     /\ succeeded' = [succeeded EXCEPT !.following = Succeeded(fetch)]
                     /\ page' = 1
                     /\ acc' = <<>>
                     /\ pc' = "getNonMutualFollowing"
                ELSE /\ acc' = r.acc
                     /\ page' = r.page
                     /\ UNCHANGED <<pc, following, succeeded>>
    /\ UNCHANGED <<followersFile, historyFile, remoteFollowers, remoteFollowing, op,
                   followers, changes, non_mutual, stats, raised, lastOp, previous,
                   preFollowersFile, preHistoryFile, base, gained, lost, lastCheck,
                   repeated, opsLeft,
                   construction, session, ui>>

\* checkChanges after getFollowers returned: load, diff, save, updateHistory.
checkChanges ==
    /\ pc = "checkChanges"
    /\ LET currentFollowers == followers
           previousFollowers == loadPreviousFollowers(followersFile)
       IN  IF previousFollowers.exc # "none"
           THEN /\ raised' = previousFollowers.exc
                /\ UNCHANGED <<followersFile, historyFile, changes, previous,
                               base, gained, lost>>
           ELSE LET newFollowers ==
                        newFollowersOf(currentFollowers, previousFollowers.val)
                    unfollowers ==
                        unfollowersOf(currentFollowers, previousFollowers.val)
                    written == updateHistory(historyFile, newFollowers, unfollowers, now)
                    \* the log starts again from the default when the file is no log
                    restarts == historyFile.state # "valid"
                IN  /\ previous' = previousFollowers.val
                    /\ followersFile' = saveCurrentFollowers(followersFile, currentFollowers)
                    /\ IF written.exc # "none"
                       THEN /\ raised' = written.exc
                            /\ UNCHANGED <<historyFile, changes, base, gained, lost>>
                       ELSE /\ raised' = "none"
                            /\ historyFile' = written.val
                            /\ base' = IF restarts
                                        THEN [newFollowers |-> 0, unfollowers |-> 0]
                                        ELSE base
                            /\ gained' = (IF restarts THEN <<>> ELSE gained)
                                          \o Entries(newFollowers, strftime(now))
                            /\ lost' = (IF restarts THEN <<>> ELSE lost)
                                        \o Entries(unfollowers, strftime(now))
                            /\ changes' = [newFollowers |-> newFollowers,
                                           unfollowers |-> unfollowers,
                                           totalFollowers |-> Len(currentFollowers)]
    /\ pc' = "idle"
    /\ op' = "none"
    /\ lastOp' = "checkChanges"
    /\ trace' = NoFetches
    /\ lastCheck' = [ok |-> succeeded.followers, list |-> followers]
    /\ repeated' = (lastCheck.ok /\ succeeded.followers /\ followers = lastCheck.list)
    /\ UNCHANGED <<remoteFollowers, remoteFollowing, now, page, acc, followers, following,
                   non_mutual, stats, succeeded, preFollowersFile, preHistoryFile, opsLeft,
                   envLeft,
                   construction, session, ui>>

\* getNonMutualFollowing after both fetches returned.
getNonMutualFollowingSaves ==
    /\ pc = "getNonMutualFollowing"
    /\ non_mutual' = nonMutualOf(followers, following)
    /\ followersFile' = saveCurrentFollowers(followersFile, followers)
    /\ pc' = "idle"
    /\ op' = "none"
    /\ lastOp' = "getNonMutualFollowing"
    /\ trace' = NoFetches
    /\ UNCHANGED <<historyFile, remoteFollowers, remoteFollowing, now, page,
                   acc, followers, following, changes, stats, raised, succeeded, previous,
                   preFollowersFile, preHistoryFile, base, gained, lost, lastCheck,
                   repeated, opsLeft, envLeft,
                   construction, session, ui>>
getNonMutualFollowing ==
    /\ pc = "getNonMutualFollowing"
    /\ non_mutual' = nonMutualOf(followers, following)
    /\ pc' = "idle"
    /\ op' = "none"
    /\ lastOp' = "getNonMutualFollowing"
    /\ trace' = NoFetches
    /\ UNCHANGED <<followersFile, historyFile, remoteFollowers, remoteFollowing, now, page,
                   acc, followers, following, changes, stats, raised, succeeded, previous,
                   preFollowersFile, preHistoryFile, base, gained, lost, lastCheck,
                   repeated, opsLeft, envLeft,
                   construction, session, ui>>

\* getStats, from the two files alone.
getStats ==
    /\ pc = "idle"
    /\ opsLeft > 0
    /\ Callable("getStats")
    /\ Called("getStats")
    /\ opsLeft' = opsLeft - 1
    /\ LET result == getStatsOf(historyFile, followersFile)
       IN  /\ stats' = result.val
           /\ raised' = result.exc
    /\ lastOp' = "getStats"
    /\ followers' = <<>>
    /\ following' = <<>>
    /\ changes' = NoChanges
    /\ non_mutual' = <<>>
    /\ succeeded' = NoneSucceeded
    /\ previous' = <<>>
    /\ repeated' = FALSE
    /\ preFollowersFile' = followersFile
    /\ preHistoryFile' = historyFile
    /\ UNCHANGED <<followersFile, historyFile, remoteFollowers, remoteFollowing, now, pc,
                   op, page, acc, trace, base, gained, lost, lastCheck, envLeft>>

\* ---------------------------------------------------------------- main
\* main() is a script that runs from its top when the session starts, when a
\* button is clicked and when it calls st.rerun(); it goes into the branch of
\* the stored view. In the run a click started, st.button is True for the
\* button clicked.
Buttons(v) ==
    CASE v = "input" -> {"Start Tracking"}
      [] v = "menu" -> {"Check New Followers/Unfollowers", "View Stats",
                        "View Non-Mutual Following", "Change User"}
      [] OTHER -> {"Back to Menu"}

\* What the user types as username, and the lengths of what is typed as token.
Typed == {Text(""), Blank, Account}
Tokens == {0, TokenLength - 1, TokenLength}

\* What a construction may change, and what neither it nor a view changes.
made == <<attempt, preFollowersFile, preHistoryFile, lastOp, raised, tracker,
          followersFile, historyFile, otherFiles, base, gained, lost>>
running == <<remoteFollowers, remoteFollowing, now, pc, op, page, acc, followers,
             following, changes, non_mutual, stats, trace, succeeded, previous,
             lastCheck, repeated, opsLeft, envLeft>>

\* The user clicks a button of the page that is shown.
Click ==
    /\ ui = "wait"
    /\ \E button \in Buttons(view) : clicked' = button
    /\ ui' = "run"
    /\ UNCHANGED <<made, running, view, visit>>

\* "if st.session_state.view == 'input'": on "Start Tracking" the username and
\* the token are looked at and the tracker is constructed.
inputView ==
    /\ ui = "run"
    /\ view = "input"
    /\ IF clicked = "Start Tracking"
       THEN \E username \in Typed, token \in Tokens :
              IF strip(username) = Text("") \/ (token > 0 /\ token < TokenLength)
              THEN /\ ui' = "wait"
                   /\ UNCHANGED <<made, view>>
              ELSE /\ Construct(username)
                   /\ IF raised' = "none"
                      THEN view' = "menu" /\ ui' = "run"
                      ELSE ui' = "wait" /\ UNCHANGED view
       ELSE /\ ui' = "wait"
            /\ UNCHANGED <<made, view>>
    /\ clicked' = "none"
    /\ UNCHANGED <<running, visit>>

\* A button of the menu sets the view and calls st.rerun().
Enter(v) ==
    /\ view' = v
    /\ ui' = "run"
    /\ visit' = [view |-> v, calls |-> 0]
    /\ UNCHANGED tracker

\* "elif st.session_state.view == 'menu'"
menuView ==
    /\ ui = "run"
    /\ view = "menu"
    /\ CASE clicked = "Check New Followers/Unfollowers" -> Enter("changes")
         [] clicked = "View Stats" -> Enter("stats")
         [] clicked = "View Non-Mutual Following" -> Enter("nonMutual")
         [] clicked = "Change User" ->
                /\ tracker' = None
                /\ view' = "input"
                /\ ui' = "run"
                /\ UNCHANGED visit
         [] OTHER ->
                /\ ui' = "wait"
                /\ UNCHANGED <<tracker, view, visit>>
    /\ clicked' = "none"
    /\ UNCHANGED <<attempt, preFollowersFile, preHistoryFile, lastOp, raised,
                   followersFile, historyFile, otherFiles, base, gained, lost, running>>

\* The rest of a view's branch, after the operation it calls has returned: the
\* page is written, and "Back to Menu" sets the view and calls st.rerun().
Shown(v) ==
    /\ ui = "called"
    /\ pc = "idle"
    /\ view = v
    /\ IF clicked = "Back to Menu"
       THEN view' = "menu" /\ ui' = "run"
       ELSE ui' = "wait" /\ UNCHANGED view
    /\ clicked' = "none"
    /\ UNCHANGED <<made, running, visit>>

\* "elif st.session_state.view == 'changes'", after checkChanges()
changesView == Shown("changes")

\* "elif st.session_state.view == 'stats'", after getStats()
statsView == Shown("stats")

\* "elif st.session_state.view == 'nonMutual'", after getNonMutualFollowing()
nonMutualView == Shown("nonMutual")

\* ------------------------------------------------------------- outside
\* The remote follower list changes while getFollowers walks it: before its
\* first request (as a change between two operations does) or between two pages.
Disturbed == [trace EXCEPT !.followers.stable = FALSE]

\* An account starts to follow: the list gains it at the front.
RemoteFollow ==
    /\ envLeft > 0
    /\ pc = "getFollowers"
    /\ \A k \in 1..Len(remoteFollowers) : remoteFollowers[k].id # Newcomer.id
    /\ remoteFollowers' = <<Newcomer>> \o remoteFollowers
    /\ envLeft' = envLeft - 1
    /\ trace' = Disturbed
    /\ UNCHANGED <<followersFile, historyFile, remoteFollowing, now, pc, op, page, acc,
                   followers, following, changes, non_mutual, stats, raised, lastOp,
                   succeeded, previous, preFollowersFile, preHistoryFile, base,
                   gained, lost, lastCheck, repeated, opsLeft,
                   construction, session, ui>>

\* The first account of the list stops following.
RemoteUnfollow ==
    /\ envLeft > 0
    /\ pc = "getFollowers"
    /\ remoteFollowers # <<>>
    /\ remoteFollowers' = Tail(remoteFollowers)
    /\ envLeft' = envLeft - 1
    /\ trace' = Disturbed
    /\ UNCHANGED <<followersFile, historyFile, remoteFollowing, now, pc, op, page, acc,
                   followers, following, changes, non_mutual, stats, raised, lastOp,
                   succeeded, previous, preFollowersFile, preHistoryFile, base,
                   gained, lost, lastCheck, repeated, opsLeft,
                   construction, session, ui>>

\* Between two operations a file is removed, cut to nothing, or left with a text
\* that is no JSON document (a write that was interrupted).
Damage ==
    /\ pc = "idle"
    /\ envLeft > 0
    /\ \E state \in BadStates :
         \/ /\ followersFile' = [state |-> state, data |-> <<>>]
            /\ UNCHANGED historyFile
         \/ /\ historyFile' = [state |-> state, data |-> DefaultHistory]
            /\ UNCHANGED followersFile
    /\ envLeft' = envLeft - 1
    /\ lastOp' = "none"
    /\ lastCheck' = NoCheck
    /\ UNCHANGED <<remoteFollowers, remoteFollowing, now, pc, op, page, acc, followers,
                   following, changes, non_mutual, stats, raised, trace, succeeded,
                   previous, preFollowersFile, preHistoryFile, base, gained, lost,
                   repeated, opsLeft,
                   construction, session, ui>>

Next ==
    \/ checkChangesCall
    \/ getNonMutualFollowingCall
    \/ getFollowers
    \/ getFollowing
    \/ checkChanges
    \/ getNonMutualFollowing
    \/ getStats
    \/ RemoteFollow
    \/ RemoteUnfollow
    \/ Damage

Spec == Init /\ [][Next]_vars

\* The two fetches over lists of several pages that change as they are walked.
NextPages ==
    \/ checkChangesCall
    \/ getNonMutualFollowingCall
    \/ getFollowers
    \/ getFollowing
    \/ checkChanges
    \/ getNonMutualFollowing
    \/ RemoteFollow
    \/ RemoteUnfollow

SpecPages == InitOfPages /\ [][NextPages]_vars

\* checkChanges and getStats over a log at its cap and files that get damaged.
NextHistory ==
    \/ checkChangesCall
    \/ getFollowers
    \/ checkChanges
    \/ getStats
    \/ Damage

SpecHistory == InitOfHistory /\ [][NextHistory]_vars

\* Trackers are constructed, for the account and for other usernames, between
\* checkChanges and getStats and the loss of files.
NextConstruction ==
    \/ GitHubTracker
    \/ checkChangesCall
    \/ getFollowers
    \/ checkChanges
    \/ getStats
    \/ Damage

SpecConstruction == InitOfConstruction /\ [][NextConstruction]_vars

\* A session of main(): the user goes through the views.
NextSession ==
    \/ Click
    \/ inputView
    \/ menuView
    \/ checkChangesCall
    \/ getFollowers
    \/ checkChanges
    \/ changesView
    \/ getStats
    \/ statsView
    \/ getNonMutualFollowingCall
    \/ getFollowing
    \/ getNonMutualFollowing
    \/ nonMutualView

SpecSession == InitOfSession /\ [][NextSession]_vars

\* ============================================================== claims
\* What the claims speak of.
CheckReturned == lastOp = "checkChanges"
FetchFailed == ~succeeded.followers

\* The positions of list whose login no member of others has.
Kept(list, others) ==
    {k \in 1..Len(list) : \A j \in 1..Len(others) : others[j].login # list[k].login}

\* out is list without the members whose login occurs in others, in list's order.
IsSelection(out, list, others) ==
    LET K == Kept(list, others)
    IN  /\ Len(out) = Cardinality(K)
        /\ \A k \in K : out[Cardinality({j \in K : j <= k})] = list[k]

\* seq is the last Min(Len(all), max_history) entries of all, in order.
IsCappedTail(seq, all) ==
    LET n == Min(Len(all), max_history)
    IN  /\ Len(seq) = n
        /\ \A k \in 1..n : seq[k] = all[Len(all) - n + k]

\* Every entry ever appended to a sequence of the log, oldest first.
AllGained == Prefilled(base.newFollowers) \o gained
AllLost == Prefilled(base.unfollowers) \o lost

CeilDiv(n, d) == (n + d - 1) \div d

\* What a fetch of the kind returned to the operation.
ResultOf(kind) == IF kind = "followers" THEN followers ELSE following

Kinds == {"followers", "following"}

\* C1: when the follower fetch of checkChanges fails, the snapshot file is after
\* the call what it was before the call.
C1_SnapshotUntouchedOnFailedFetch ==
    (CheckReturned /\ FetchFailed) => followersFile = preFollowersFile

\* C2: when the follower fetch of checkChanges fails, checkChanges raises nothing
\* and returns an empty gained list and an empty lost list.
C2_EmptyResultOnFailedFetch ==
    (CheckReturned /\ FetchFailed) =>
        /\ raised = "none"
        /\ changes.newFollowers = <<>>
        /\ changes.unfollowers = <<>>

\* C3: each sequence of the history file holds at most max_history entries and is,
\* in order, the last min(total, max_history) entries ever appended to it; neither
\* sequence loses an entry to appends to the other.
C3_HistoryIsCappedTail ==
    historyFile.state = "valid" =>
        /\ Len(historyFile.data.newFollowers) <= max_history
        /\ Len(historyFile.data.unfollowers) <= max_history
        /\ IsCappedTail(historyFile.data.newFollowers, AllGained)
        /\ IsCappedTail(historyFile.data.unfollowers, AllLost)

\* C3's case: more than max_history entries were appended to one sequence, so its
\* oldest are gone, while the other sequence is below the cap and kept all of its.
C3_Witness ==
    /\ CheckReturned
    /\ historyFile.state = "valid"
    /\ gained # <<>>
    /\ lost # <<>>
    /\ \/ Len(AllGained) > max_history /\ Len(AllLost) < max_history
       \/ Len(AllLost) > max_history /\ Len(AllGained) < max_history

\* C4: checkChanges returns as gained the members of the fetched list whose login
\* is not in the loaded snapshot, in the fetched list's order, and as lost the
\* members of the loaded snapshot whose login is not in the fetched list, in the
\* snapshot's order; with an empty snapshot gained is the fetched list and lost is
\* empty, with an empty fetched list lost is the snapshot and gained is empty.
C4_DiffIsSelectionByLogin ==
    (CheckReturned /\ raised = "none") =>
        /\ IsSelection(changes.newFollowers, followers, previous)
        /\ IsSelection(changes.unfollowers, previous, followers)
        /\ previous = <<>> =>
             changes.newFollowers = followers /\ changes.unfollowers = <<>>
        /\ followers = <<>> =>
             changes.unfollowers = previous /\ changes.newFollowers = <<>>

\* C4's case: a fetch that succeeded against a snapshot; some followers are new,
\* some are gone, and one account is both under two logins.
C4_Witness ==
    /\ CheckReturned
    /\ succeeded.followers
    /\ changes.newFollowers # <<>>
    /\ changes.unfollowers # <<>>
    /\ \E k \in 1..Len(changes.newFollowers) :
         changes.newFollowers[k].id = changes.unfollowers[1].id

\* C5: a checkChanges that fetches the list the successful checkChanges before it
\* fetched returns an empty gained and an empty lost list and leaves the snapshot
\* file and the history file as they were.
C5_SameListChangesNothing ==
    (CheckReturned /\ repeated) =>
        /\ raised = "none"
        /\ changes.newFollowers = <<>>
        /\ changes.unfollowers = <<>>
        /\ followersFile = preFollowersFile
        /\ historyFile = preHistoryFile

\* C5's case: the second of two checkChanges that fetched the same followers.
C5_Witness ==
    /\ CheckReturned
    /\ repeated
    /\ followers # <<>>
    /\ historyFile.data.newFollowers # <<>>

\* C6: a fetch that got success responses only, over a list that stayed the same,
\* asked for the pages 1, 2, 3, ... in order, stopped at the first empty page,
\* returned every user of the list in the list's order, and took
\* ceil(N / per_page) + 1 requests for N users.
C6_FetchWalksAllPages ==
    \A kind \in Kinds :
        LET fetch == trace[kind]
            N == Len(fetch.start)
            requests == Len(fetch.log)
        IN  /\ \A k \in 1..requests : fetch.log[k].page = k
            /\ (fetch.done /\ fetch.stable /\ Succeeded(fetch)) =>
                 /\ requests = CeilDiv(N, PerPage) + 1
                 /\ \A k \in 1..(requests - 1) : PageOf(fetch.start, k) # <<>>
                 /\ PageOf(fetch.start, requests) = <<>>
                 /\ Len(ResultOf(kind)) = N
                 /\ \A k \in 1..N :
                      /\ ResultOf(kind)[k].login = fetch.start[k].login
                      /\ ResultOf(kind)[k].id = fetch.start[k].id
                      /\ ResultOf(kind)[k].avatarUrl = fetch.start[k].avatar_url
                      /\ ResultOf(kind)[k].htmlUrl = fetch.start[k].html_url

\* C6's case: 100 followers, fetched with exactly 2 requests.
C6_Witness ==
    /\ trace.followers.done
    /\ trace.followers.stable
    /\ Succeeded(trace.followers)
    /\ Len(trace.followers.start) = PerPage
    /\ Len(trace.followers.log) = 2
    /\ Len(followers) = PerPage

\* C7: after a response that is no success a fetch makes no further request, and
\* it returns none of the users it had accumulated.
C7_FailedFetchStopsEmpty ==
    \A kind \in Kinds :
        LET fetch == trace[kind]
        IN  \A k \in 1..Len(fetch.log) :
                fetch.log[k].status # 200 =>
                    /\ k = Len(fetch.log)
                    /\ fetch.done
                    /\ ResultOf(kind) = <<>>

\* C7's case: a fetch whose first page was accumulated and whose second request
\* was refused.
C7_Witness ==
    /\ trace.following.done
    /\ Len(trace.following.log) = 2
    /\ trace.following.log[1].status = 200
    /\ trace.following.log[2].status = 401
    /\ PageOf(trace.following.start, 1) # <<>>

\* C8: when both fetches succeeded, getNonMutualFollowing returns the members of
\* the fetched following list whose login is not in the fetched follower list, in
\* the following list's order.
C8_NonMutualIsSelection ==
    (lastOp = "getNonMutualFollowing" /\ succeeded.followers /\ succeeded.following) =>
        IsSelection(non_mutual, following, followers)

\* C8's case: some of the accounts followed follow back, two do not.
C8_Witness ==
    /\ lastOp = "getNonMutualFollowing"
    /\ succeeded.followers
    /\ succeeded.following
    /\ Len(non_mutual) = 2
    /\ Len(following) = 3
    /\ followers # <<>>

\* C9: getNonMutualFollowing leaves the snapshot file and the history file as
\* they were, however its two fetches end.
C9_NonMutualWritesNothing ==
    (op = "getNonMutualFollowing" \/ lastOp = "getNonMutualFollowing") =>
        /\ followersFile = preFollowersFile
        /\ historyFile = preHistoryFile

\* C9's case: it returned with a fetched follower list that differs from the
\* snapshot in the file.
C9_Witness ==
    /\ lastOp = "getNonMutualFollowing"
    /\ succeeded.followers
    /\ followersFile.state = "valid"
    /\ followersFile.data # followers

ConstructorReturned == lastOp = "GitHubTracker"

\* A username that is the empty text or no text at all.
EmptyOrNoText(username) == username = Text("") \/ ~username.str

\* C11: a constructor call with a username that is empty or no text raises
\* ValueError and has no effect: the snapshot file, the history file and every
\* other data file are what they were, no file is named after the username, and
\* the tracker in use is the one there was (none, where there was none).
C11_ConstructorFailsFast ==
    (ConstructorReturned /\ EmptyOrNoText(attempt.username)) =>
        /\ raised = "ValueError"
        /\ followersFile = preFollowersFile
        /\ historyFile = preHistoryFile
        /\ otherFiles = attempt.otherFiles
        /\ FileNames(attempt.username) \cap otherFiles = {}
        /\ tracker = attempt.tracker
        /\ tracker = None \/ ~EmptyOrNoText(tracker)

\* C11's case: the empty text is passed where no tracker was constructed before
\* and a file is absent that a construction would have created.
C11_Witness ==
    /\ ConstructorReturned
    /\ attempt.username = Text("")
    /\ attempt.tracker = None
    /\ raised = "ValueError"
    /\ followersFile.state = "missing"
    /\ historyFile.state = "missing"

\* C12: after a checkChanges whose fetch succeeded the snapshot file holds the
\* fetched list, element by element in its order, and so no user of the previous
\* snapshot that the fetched list lacks; a load of the file returns the fetched
\* list.
C12_SnapshotIsFetchedList ==
    (CheckReturned /\ succeeded.followers) =>
        /\ followersFile.state = "valid"
        /\ Len(followersFile.data) = Len(followers)
        /\ \A k \in 1..Len(followers) : followersFile.data[k] = followers[k]
        /\ \A j \in Kept(previous, followers) :
             \A k \in 1..Len(followersFile.data) :
                 followersFile.data[k].login # previous[j].login
        /\ loadPreviousFollowers(followersFile) = Return(followers)

\* C12's case: the previous snapshot had a user that the fetched list lacks, and
\* the fetched list has users.
C12_Witness ==
    /\ CheckReturned
    /\ succeeded.followers
    /\ followers # <<>>
    /\ Kept(previous, followers) # {}
    /\ Kept(followers, previous) # Kept(followers, <<>>)

\* C13: after a response that is no success a fetch returns without a
\* suspension: it neither sleeps for the rate limit nor pauses, whatever the
\* response's headers say.
C13_NoSleepAfterFailure ==
    \A kind \in Kinds :
        \A k \in 1..Len(trace[kind].log) :
            trace[kind].log[k].status # 200 =>
                /\ trace[kind].log[k].slept = 0
                /\ trace[kind].log[k].paused = 0

\* C14: in a fetch, the sleep after a response is a rate-limit sleep exactly when
\* the response's remaining calls are below 10 and reset_time - now + 1 is
\* positive; it then lasts reset_time - now + 1 seconds, and the next request of
\* the fetch is not made before it is over.
C14_RateLimitSleep ==
    \A kind \in Kinds :
        LET log == trace[kind].log
        IN  \A k \in 1..Len(log) :
                LET due == log[k].reset - log[k].at + 1
                IN  /\ log[k].slept > 0 <=> (log[k].remaining < LowRemaining /\ due > 0)
                    /\ log[k].slept > 0 => log[k].slept = due
                    /\ log[k].slept >= 0
                    /\ k < Len(log) => log[k + 1].at >= log[k].at + log[k].slept

\* C14's case: a fetch slept for the rate limit after its first page and then
\* asked for the second; another response of it had few calls left and no sleep
\* was due.
C14_Witness ==
    \E kind \in Kinds :
        LET log == trace[kind].log
        IN  /\ Len(log) = 2
            /\ log[1].status = 200
            /\ log[1].remaining < LowRemaining
            /\ log[1].slept = 2
            /\ log[2].remaining < LowRemaining
            /\ log[2].slept = 0
            /\ log[2].at > log[1].at + log[1].slept

\* C15: when one of the two fetches of getNonMutualFollowing got a response that
\* is no success, getNonMutualFollowing raises nothing and returns an empty list.
C15_EmptyOnFailedFetch ==
    (lastOp = "getNonMutualFollowing"
        /\ ~(succeeded.followers /\ succeeded.following)) =>
        /\ raised = "none"
        /\ non_mutual = <<>>

\* No two members of the list have the same login.
DistinctLogins(list) ==
    \A j, k \in 1..Len(list) : j # k => list[j].login # list[k].login

\* C16: the list a fetch returns after success responses only has no login
\* twice, and neither has the snapshot checkChanges saves of it, also when the
\* remote list gains or loses a member between two pages.
C16_SnapshotLoginsDistinct ==
    /\ DistinctLogins(remoteFollowers)
    /\ succeeded.followers => DistinctLogins(followers)
    /\ (CheckReturned /\ succeeded.followers) =>
         followersFile.state = "valid" /\ DistinctLogins(followersFile.data)

\* C17: in a fetch, a request that is not the first is made exactly 1 second
\* after the end of the rate-limit sleep (if any) that followed the request
\* before it, whatever the headers of the responses were.
C17_PauseBetweenPages ==
    \A kind \in Kinds :
        LET log == trace[kind].log
        IN  \A k \in 1..(Len(log) - 1) :
                /\ log[k + 1].page = log[k].page + 1
                /\ log[k + 1].at - (log[k].at + log[k].slept) = PagePause
                /\ log[k + 1].at > log[k].at

\* C17's case: three requests of one fetch, the first of them followed by a
\* rate-limit sleep.
C17_Witness ==
    \E kind \in Kinds :
        LET log == trace[kind].log
        IN  /\ Len(log) = 3
            /\ log[1].slept > 0
            /\ log[2].slept = 0
            /\ log[2].at = log[1].at + log[1].slept + 1
            /\ log[3].at = log[2].at + 1

\* C18: when the user is back at the menu from the changes view, checkChanges
\* was called exactly once since that view was entered from the menu.
C18_OneCheckPerVisit ==
    (view = "menu" /\ visit.view = "changes") => visit.calls = 1

\* The log a history file holds, the default for a file that holds none.
LogOf(file) == Except(readHistory(file), DefaultHistory).val

\* C19: a checkChanges whose follower fetch failed leaves both sequences of the
\* history log as they were before the call.
C19_NoHistoryOnFailedFetch ==
    (CheckReturned /\ FetchFailed) =>
        /\ LogOf(historyFile).newFollowers = LogOf(preHistoryFile).newFollowers
        /\ LogOf(historyFile).unfollowers = LogOf(preHistoryFile).unfollowers

\* C20: a construction for the account leaves a snapshot file and a history file
\* that exist as they are, whatever they hold, and writes the default only to a
\* file that is absent; so a construction after a checkChanges keeps the
\* snapshot and the log that checkChanges wrote.
C20_ConstructionKeepsFiles ==
    (ConstructorReturned /\ attempt.username = Account) =>
        /\ raised = "none"
        /\ tracker = Account
        /\ preFollowersFile.state # "missing" => followersFile = preFollowersFile
        /\ preHistoryFile.state # "missing" => historyFile = preHistoryFile
        /\ preFollowersFile.state = "missing" => followersFile = Valid(<<>>)
        /\ preHistoryFile.state = "missing" => historyFile = Valid(DefaultHistory)
        /\ lastCheck.ok =>
             /\ followersFile = Valid(lastCheck.list)
             /\ IsCappedTail(LogOf(historyFile).newFollowers, AllGained)
             /\ IsCappedTail(LogOf(historyFile).unfollowers, AllLost)

\* C20's case: construct, checkChanges, construct for the account; the second
\* construction finds the snapshot and the log entries of the checkChanges.
C20_Witness ==
    /\ ConstructorReturned
    /\ attempt.username = Account
    /\ attempt.tracker = Account
    /\ lastCheck.ok
    /\ lastCheck.list # <<>>
    /\ followersFile = Valid(lastCheck.list)
    /\ gained # <<>>
    /\ LogOf(historyFile).newFollowers # <<>>

====
